---- MODULE Spec2Model ----
(***************************************************************************)
(* Model of the hybrid shopping-search service of src/main.py: catalog     *)
(* search with optional personalization, web-search fallback, interaction  *)
(* tracking and recommendations.                                           *)
(*                                                                         *)
(* Text values are sequences of one-character strings, so that the         *)
(* substring tests, lower-casing and quote stripping of the code are       *)
(* computed and not assumed.                                               *)
(***************************************************************************)
EXTENDS Integers, Sequences, FiniteSets, TLC

VARIABLES
    supabase,            \* TRUE iff the read client was initialised (main.py:34-43)
    supabase_admin,      \* TRUE iff the admin client was initialised (main.py:35-51)
    user_profiles,       \* the stored user_profiles row of user "u1", or NoRow
    user_interactions,   \* the user_interactions table: sequence of inserted rows
    pc,                  \* position of the request being handled
    request,             \* the request being handled
    user_prefs,          \* local user_prefs of the handler (None, or a row)
    db_products,         \* search_products: result of search_database
    web_products,        \* search_products: result of search_products_with_claude
    clicked_product_ids, \* get_recommendations: result of get_user_click_history
    sql,                 \* the predicate set of the last search_database query
    query_ids,           \* the product ids passed as parameters of catalog queries
    trace,               \* the dependency calls made while handling the request
    response             \* the response of the request (NoResponse while running)

vars == <<supabase, supabase_admin, user_profiles, user_interactions, pc, request,
          user_prefs, db_products, web_products, clicked_product_ids, sql, query_ids,
          trace, response>>

-----------------------------------------------------------------------------
(* Bounds of the model *)

\* longest JSON array the upstream agent answers with
MaxUpstream == 9
\* number of rows the interaction log may hold
MaxLog == 2

-----------------------------------------------------------------------------
(* Text *)

LowerMap ==
    ("A" :> "a") @@ ("B" :> "b") @@ ("C" :> "c") @@ ("D" :> "d") @@ ("E" :> "e") @@
    ("F" :> "f") @@ ("G" :> "g") @@ ("H" :> "h") @@ ("I" :> "i") @@ ("J" :> "j") @@
    ("K" :> "k") @@ ("L" :> "l") @@ ("M" :> "m") @@ ("N" :> "n") @@ ("O" :> "o") @@
    ("P" :> "p") @@ ("Q" :> "q") @@ ("R" :> "r") @@ ("S" :> "s") @@ ("T" :> "t") @@
    ("U" :> "u") @@ ("V" :> "v") @@ ("W" :> "w") @@ ("X" :> "x") @@ ("Y" :> "y") @@
    ("Z" :> "z")

\* str.lower() / SQL LOWER()
Lower(s) == [i \in 1..Len(s) |-> IF s[i] \in DOMAIN LowerMap THEN LowerMap[s[i]] ELSE s[i]]

\* str.replace('"', '') / SQL REPLACE(brand, '"', '')
StripQuotes(s) == SelectSeq(s, LAMBDA c : c # "\"")

\* str.strip(): leading and trailing white space removed
RECURSIVE LStrip(_)
LStrip(s) == IF s # <<>> /\ Head(s) = " " THEN LStrip(Tail(s)) ELSE s

RECURSIVE RStrip(_)
RStrip(s) == IF s # <<>> /\ s[Len(s)] = " " THEN RStrip(SubSeq(s, 1, Len(s) - 1)) ELSE s

Strip(s) == RStrip(LStrip(s))

\* Python `sub in s` / SQL `s LIKE '%sub%'`
Contains(s, sub) ==
    \E i \in 1..(Len(s) - Len(sub) + 1) : SubSeq(s, i, i + Len(sub) - 1) = sub

Range(s) == {s[i] : i \in 1..Len(s)}

\* the first n elements of s
Take(s, n) == SubSeq(s, 1, IF Len(s) < n THEN Len(s) ELSE n)

-----------------------------------------------------------------------------
(* The fit keyword sets of search_database *)

top_keywords ==
    { <<"s", "h", "i", "r", "t">>,
      <<"t", "o", "p">>,
      <<"h", "o", "o", "d", "i", "e">>,
      <<"s", "w", "e", "a", "t", "e", "r">>,
      <<"j", "a", "c", "k", "e", "t">>,
      <<"b", "l", "o", "u", "s", "e">>,
      <<"t", "s", "h", "i", "r", "t">>,
      <<"t", "-", "s", "h", "i", "r", "t">>,
      <<"s", "w", "e", "a", "t", "s", "h", "i", "r", "t">> }

bottom_keywords ==
    { <<"j", "e", "a", "n">>,
      <<"t", "r", "o", "u", "s", "e", "r">>,
      <<"p", "a", "n", "t">>,
      <<"s", "h", "o", "r", "t">>,
      <<"s", "k", "i", "r", "t">>,
      <<"c", "h", "i", "n", "o">>,
      <<"s", "w", "e", "a", "t", "p", "a", "n", "t">> }

is_top_query(query_lower) == \E keyword \in top_keywords : Contains(query_lower, keyword)

is_bottom_query(query_lower) == \E keyword \in bottom_keywords : Contains(query_lower, keyword)

-----------------------------------------------------------------------------
(* Text values used by the catalog, the profiles and the requests *)

T_jean      == <<"j", "e", "a", "n">>
T_Jean      == <<"J", "e", "a", "n">>
T_shirt     == <<"s", "h", "i", "r", "t">>
T_jeanshirt == <<"j", "e", "a", "n", " ", "s", "h", "i", "r", "t">>
T_sock      == <<"s", "o", "c", "k">>
T_nike      == <<"n", "i", "k", "e">>
T_zzz       == <<"z", "z", "z">>
T_space     == <<" ">>
T_Levi      == <<"L", "e", "v", "i">>
T_Nike      == <<"N", "i", "k", "e">>
T_qNikeq    == <<"\"", "N", "i", "k", "e", "\"">>
T_qnikeq    == <<"\"", "n", "i", "k", "e", "\"">>
T_Puma      == <<"P", "u", "m", "a">>
T_blue      == <<"b", "l", "u", "e">>
T_red       == <<"r", "e", "d">>
T_black     == <<"b", "l", "a", "c", "k">>
T_Slim      == <<"S", "l", "i", "m">>
T_slim      == <<"s", "l", "i", "m">>
T_Regular   == <<"R", "e", "g", "u", "l", "a", "r">>
T_regular   == <<"r", "e", "g", "u", "l", "a", "r">>
T_jeans     == <<"j", "e", "a", "n", "s">>
T_tops      == <<"t", "o", "p", "s">>
T_socks     == <<"s", "o", "c", "k", "s">>
T_casual    == <<"c", "a", "s", "u", "a", "l">>
T_Casual    == <<"C", "a", "s", "u", "a", "l">>
T_sport     == <<"s", "p", "o", "r", "t">>

-----------------------------------------------------------------------------
(* The products table (read-only for the service) *)

Row(id, name, brand, price, color, fit, category, style) ==
    [id |-> id, name |-> name, brand |-> brand, price |-> price, color |-> color,
     fit |-> fit, category |-> category, style |-> style]

products_table ==
    << Row(1, T_jean,      T_Levi,   60, T_blue,  T_Slim,    T_jeans, T_casual),
       Row(2, T_shirt,     T_qNikeq, 30, T_red,   T_Regular, T_tops,  T_sport),
       Row(3, T_jeanshirt, T_Nike,   45, T_black, T_slim,    T_tops,  T_Casual),
       Row(4, T_sock,      T_Puma,    5, T_blue,  T_regular, T_socks, T_sport),
       Row(5, T_jean,      T_Nike,   55, T_black, T_Regular, T_jeans, T_sport) >>

-----------------------------------------------------------------------------
(* The user_profiles rows the preference store may hold for user "u1" *)

\* no row / Python None
NoRow ==
    [exists |-> FALSE, favorite_brands |-> <<>>, favorite_styles |-> <<>>,
     fit_preferences_tops |-> <<>>, fit_preferences_bottoms |-> <<>>]

None == NoRow

\* one entry of a fit_preferences mapping: sub-category -> value, the value a
\* list of fit labels (islist) or some other JSON value
FitEntry(key, islist, fits) == [key |-> key, islist |-> islist, fits |-> fits]

BrandLists == { <<>>, <<T_Nike>>, <<T_qnikeq>> }

StyleLists == { <<>>, <<T_Casual>> }

TopsMaps ==
    { <<>>,
      << FitEntry("shirts", TRUE, <<T_Slim>>) >>,
      << FitEntry("shirts", FALSE, <<>>) >> }

BottomsMaps ==
    { <<>>,
      << FitEntry("jeans", TRUE, <<T_regular, T_Regular>>) >> }

Profiles ==
    { [exists |-> TRUE, favorite_brands |-> b, favorite_styles |-> s,
       fit_preferences_tops |-> t, fit_preferences_bottoms |-> m] :
         b \in BrandLists, s \in StyleLists, t \in TopsMaps, m \in BottomsMaps }

-----------------------------------------------------------------------------
(* Request inputs *)

\* body.get("user_id") is None when the key is missing
NoUser == "None"

UserIds == { NoUser, "", "u1" }

\* `if user_id:` -- neither None nor the empty string
Truthy(user_id) == user_id # NoUser /\ user_id # ""

\* body.get("query", "") maps a missing key to the empty string
Queries == { <<>>, T_space, T_jean, T_Jean, T_shirt, T_jeanshirt, T_sock, T_zzz }

-----------------------------------------------------------------------------
(* get_user_preferences *)

\* fetch is what the store does with the select: "ok" or "throws".
\* The result is the row, or None, and whether the store was read.
get_user_preferences(user_id, fetch) ==
    IF ~supabase THEN [prefs |-> None, trace |-> <<>>]
    ELSE IF ~Truthy(user_id) THEN [prefs |-> None, trace |-> <<>>]
    ELSE IF fetch = "throws"
         THEN [prefs |-> None, trace |-> <<"prefs.select", "prefs.error">>]
    ELSE IF user_id = "u1" /\ user_profiles.exists
         THEN [prefs |-> user_profiles, trace |-> <<"prefs.select">>]
         ELSE [prefs |-> None, trace |-> <<"prefs.select">>]

-----------------------------------------------------------------------------
(* search_database *)

NoSql ==
    [built |-> FALSE, pattern |-> <<>>, brand_filter |-> FALSE, brands |-> {},
     style_filter |-> FALSE, styles |-> {}, fit_source |-> "none", fits |-> {}]

\* preferred_fits: every list value of the mapping, concatenated, as a set
PreferredFits(mapping) ==
    UNION { Range(mapping[i].fits) : i \in { j \in 1..Len(mapping) : mapping[j].islist } }

\* which fit mapping the fit filter is built from: the if / elif of lines 302-330
FitSource(query_lower, prefs) ==
    IF is_top_query(query_lower) /\ prefs.fit_preferences_tops # <<>>
    THEN IF PreferredFits(prefs.fit_preferences_tops) # {} THEN "tops" ELSE "none"
    ELSE IF is_bottom_query(query_lower) /\ prefs.fit_preferences_bottoms # <<>>
    THEN IF PreferredFits(prefs.fit_preferences_bottoms) # {} THEN "bottoms" ELSE "none"
    ELSE "none"

\* BuildSql with the style filter in an elif of the brand filter: a row with
\* favorite brands and favorite styles gets the style filter alone
BuildSql_StylesInsteadOfBrands(query, prefs) ==
    LET query_lower == Lower(query)
        src == IF prefs.exists THEN FitSource(query_lower, prefs) ELSE "none"
    IN  [built        |-> TRUE,
         pattern      |-> query_lower,
         brand_filter |-> prefs.exists /\ prefs.favorite_brands # <<>>
                             /\ prefs.favorite_styles = <<>>,
         brands       |-> IF prefs.exists
                          THEN { Lower(b) : b \in Range(prefs.favorite_brands) } ELSE {},
         style_filter |-> prefs.exists /\ prefs.favorite_styles # <<>>,
         styles       |-> IF prefs.exists
                          THEN { Lower(s) : s \in Range(prefs.favorite_styles) } ELSE {},
         fit_source   |-> src,
         fits         |-> CASE src = "tops" ->
                                 { Lower(f) : f \in PreferredFits(prefs.fit_preferences_tops) }
                            [] src = "bottoms" ->
                                 { Lower(f) : f \in PreferredFits(prefs.fit_preferences_bottoms) }
                            [] OTHER -> {}]

\* the predicate set built by lines 260-332
BuildSql(query, prefs) ==
    LET query_lower == Lower(query)
        src == IF prefs.exists THEN FitSource(query_lower, prefs) ELSE "none"
    IN  [built        |-> TRUE,
         pattern      |-> query_lower,
         brand_filter |-> prefs.exists /\ prefs.favorite_brands # <<>>,
         brands       |-> IF prefs.exists
                          THEN { Lower(b) : b \in Range(prefs.favorite_brands) } ELSE {},
         style_filter |-> prefs.exists /\ prefs.favorite_styles # <<>>,
         styles       |-> IF prefs.exists
                          THEN { Lower(s) : s \in Range(prefs.favorite_styles) } ELSE {},
         fit_source   |-> src,
         fits         |-> CASE src = "tops" ->
                                 { Lower(f) : f \in PreferredFits(prefs.fit_preferences_tops) }
                            [] src = "bottoms" ->
                                 { Lower(f) : f \in PreferredFits(prefs.fit_preferences_bottoms) }
                            [] OTHER -> {}]

\* LOWER(REPLACE(brand, '"', '')) IN (...) OR LOWER(brand) IN (...)
BrandMatches(row, brands) ==
    Lower(StripQuotes(row.brand)) \in brands \/ Lower(row.brand) \in brands

\* the base text predicate of line 264
BaseMatches(row, pattern) ==
    \/ Contains(Lower(row.name), pattern)
    \/ Contains(Lower(row.brand), pattern)
    \/ Contains(Lower(row.color), pattern)
    \/ Contains(Lower(row.category), pattern)
    \/ Contains(Lower(row.fit), pattern)

\* the WHERE clause of the query
RowMatches(row, q) ==
    /\ BaseMatches(row, q.pattern)
    /\ q.brand_filter => BrandMatches(row, q.brands)
    /\ q.style_filter => Lower(row.style) \in q.styles
    /\ q.fit_source # "none" => Lower(row.fit) \in q.fits

\* LIMIT 50
DbLimit == 50

\* the selected columns of a row plus retailer (urls and affiliate link are
\* carried through unchanged and left out)
SearchProduct(row) ==
    [id |-> row.id, name |-> row.name, brand |-> row.brand, price |-> row.price,
     color |-> row.color, fit |-> row.fit, category |-> row.category,
     retailer |-> row.brand]

ExecuteSearch(q) ==
    LET hits == SelectSeq(products_table, LAMBDA row : RowMatches(row, q))
    IN  Take([i \in 1..Len(hits) |-> SearchProduct(hits[i])], DbLimit)

\* search_database reading the preferences of a fixed user when the request
\* names none
search_database_DefaultUser(query, user_id, connect, fetch, execute) ==
    IF connect = "fails"
    THEN [products |-> <<>>, prefs |-> None, sql |-> NoSql,
          trace |-> <<"db.connect_failed">>]
    ELSE LET got == get_user_preferences(IF Truthy(user_id) THEN user_id ELSE "u1", fetch)
             q   == BuildSql(query, got.prefs)
         IN  IF execute = "throws"
             THEN [products |-> <<>>, prefs |-> got.prefs, sql |-> q,
                   trace |-> <<"db.open">> \o got.trace
                             \o <<"db.execute", "db.error", "db.close">>]
             ELSE [products |-> ExecuteSearch(q), prefs |-> got.prefs, sql |-> q,
                   trace |-> <<"db.open">> \o got.trace \o <<"db.execute", "db.close">>]

\* connect, fetch, execute are what the stores do: "ok", "fails"/"throws"
search_database(query, user_id, connect, fetch, execute) ==
    IF connect = "fails"
    THEN [products |-> <<>>, prefs |-> None, sql |-> NoSql,
          trace |-> <<"db.connect_failed">>]
    ELSE LET got == IF Truthy(user_id) THEN get_user_preferences(user_id, fetch)
                    ELSE [prefs |-> None, trace |-> <<>>]
             q   == BuildSql(query, got.prefs)
         IN  IF execute = "throws"
             THEN [products |-> <<>>, prefs |-> got.prefs, sql |-> q,
                   trace |-> <<"db.open">> \o got.trace
                             \o <<"db.execute", "db.error", "db.close">>]
             ELSE [products |-> ExecuteSearch(q), prefs |-> got.prefs, sql |-> q,
                   trace |-> <<"db.open">> \o got.trace \o <<"db.execute", "db.close">>]

-----------------------------------------------------------------------------
(* search_products_with_claude: the web-search fallback *)

Absent == "ABSENT"     \* the key is not in the upstream entry
Null   == "NULL"       \* the key is there and carries JSON null
Given  == "upstream"   \* the key is there and carries a value

DefaultFields ==
    { "name", "brand", "price", "color", "fit", "category", "retailer",
      "image_url", "product_url" }

DisplayFields == DefaultFields \cup { "id" }

\* the setdefault values of lines 393-401
Default ==
    [ name        |-> "Unknown Product",
      brand       |-> "Unknown",
      price       |-> "0.0",
      color       |-> "N/A",
      fit         |-> "Regular",
      category    |-> "clothing",
      retailer    |-> "Online Store",
      image_url   |-> "https://via.placeholder.com/300x400?text=No+Image",
      product_url |-> "#" ]

\* one element of the parsed JSON array: an object (isdict) with its keys, or
\* some other JSON value
Entry(isdict, absent, null) ==
    [isdict |-> isdict,
     f |-> [k \in DisplayFields |->
              IF k \in absent THEN Absent ELSE IF k \in null THEN Null ELSE Given]]

EntryFull     == Entry(TRUE, {"id"}, {})
EntryNoColor  == Entry(TRUE, {"id", "color"}, {})
EntryNullName == Entry(TRUE, {"id"}, {"name"})
EntryEmpty    == Entry(TRUE, DisplayFields, {})
EntryWithId   == Entry(TRUE, {"price"}, {"id", "fit"})
EntryNotDict  == Entry(FALSE, DisplayFields, {})

Entries == { EntryFull, EntryNoColor, EntryNullName, EntryEmpty, EntryWithId, EntryNotDict }

UpstreamLists ==
    { <<>> } \cup { <<e>> : e \in Entries } \cup { <<EntryFull, e>> : e \in Entries }
    \cup { [i \in 1..n |-> EntryNoColor] : n \in 3..MaxUpstream }

\* what the agent call yields: the call throws, the text blocks are empty,
\* json.loads fails, the JSON value is no array, or it is an array
Upstreams ==
    { [kind |-> k, items |-> <<>>] : k \in { "throws", "empty_text", "malformed", "not_list" } }
    \cup { [kind |-> "list", items |-> l] : l \in UpstreamLists }

\* lines 391-401 for the i-th entry: the id is overwritten, the other keys
\* are set only when the key is not there
WebProduct(entry, i) ==
    [k \in DisplayFields |->
        IF k = "id" THEN "web_" \o ToString(i)
        ELSE IF entry.f[k] = Absent THEN Default[k]
        ELSE entry.f[k]]

search_products_with_claude(upstream) ==
    IF upstream.kind # "list" THEN <<>>
    ELSE IF \E i \in 1..Len(upstream.items) : ~upstream.items[i].isdict
    THEN <<>>                          \* item assignment raises, caught at 404
    ELSE [i \in 1..Len(upstream.items) |-> WebProduct(upstream.items[i], i)]

-----------------------------------------------------------------------------
(* Requests and responses *)

\* get_recommendations: limit: int = 8
DefaultLimit == 8

NoRequest ==
    [handler |-> "none", has_query |-> FALSE, query |-> <<>>, user_id |-> NoUser,
     action |-> NoUser, product_id |-> <<>>, metadata |-> FALSE,
     limit |-> DefaultLimit, category |-> <<>>]

NoResponse ==
    [status |-> 0, source |-> "", total |-> 0, items |-> <<>>, personalized |-> FALSE,
     success |-> FALSE, detail |-> ""]

\* SearchResponse with total_results counting catalog products only
SearchResponse_DbTotal(source, items, personalized) ==
    [NoResponse EXCEPT !.status = 200, !.source = source,
                       !.total = IF source = "database" THEN Len(items) ELSE 0,
                       !.items = items, !.personalized = personalized]

\* a 200 response of /api/search
SearchResponse(source, items, personalized) ==
    [NoResponse EXCEPT !.status = 200, !.source = source, !.total = Len(items),
                       !.items = items, !.personalized = personalized]

\* raise HTTPException(status_code, detail) in the handler body
HTTPException(status_code, detail) == [status_code |-> status_code, detail |-> detail]

\* an exception raised by a store or agent call
StoreError(detail) == [status_code |-> 0, detail |-> detail]

\* HandlerExcept returning a neutral body instead of raising
HandlerExcept_Swallow(e, prefix) ==
    [NoResponse EXCEPT !.status = 200, !.detail = prefix \o e.detail]

\* `except Exception as e: raise HTTPException(status_code=500, ...)`: the
\* clause every handler body is wrapped in. HTTPException is an Exception,
\* so the 400 raised by the body's own validation is caught here as well.
HandlerExcept(e, prefix) ==
    [NoResponse EXCEPT !.status = 500, !.detail = prefix \o e.detail]

-----------------------------------------------------------------------------
(* POST /api/search *)

\* lines 421-426: read the body, validate the query
SearchStartOf(queries, user_ids) ==
    /\ pc = "idle"
    /\ \E has_query \in BOOLEAN, q \in queries, uid \in user_ids :
         LET query == IF has_query THEN q ELSE <<>>
         IN  /\ ~has_query => q = <<>>
             /\ request' = [NoRequest EXCEPT !.handler = "search", !.has_query = has_query,
                                             !.query = query, !.user_id = uid]
             /\ IF query = <<>> \/ Len(Strip(query)) = 0
                THEN /\ response' = HandlerExcept(HTTPException(400, "Query cannot be empty"),
                                                  "Search failed: ")
                     /\ pc' = "done"
                ELSE /\ response' = NoResponse
                     /\ pc' = "catalog"
    /\ user_prefs' = None
    /\ db_products' = <<>>
    /\ web_products' = <<>>
    /\ clicked_product_ids' = <<>>
    /\ sql' = NoSql
    /\ query_ids' = <<>>
    /\ trace' = <<>>
    /\ UNCHANGED <<supabase, supabase_admin, user_profiles, user_interactions>>

SearchStart == SearchStartOf(Queries, UserIds)

\* lines 436-446: the catalog step
SearchCatalog ==
    /\ pc = "catalog"
    /\ \E connect \in { "ok", "fails" }, fetch \in { "ok", "throws" },
          execute \in { "ok", "throws" } :
         LET r == search_database(request.query, request.user_id, connect, fetch, execute)
         IN  /\ db_products' = r.products
             /\ user_prefs' = r.prefs
             /\ sql' = r.sql
             /\ trace' = trace \o r.trace
             /\ IF r.products # <<>>
                THEN /\ response' = SearchResponse("database", r.products,
                                        request.user_id # NoUser /\ supabase)
                     /\ pc' = "done"
                ELSE /\ response' = NoResponse
                     /\ pc' = "web"
    /\ UNCHANGED <<supabase, supabase_admin, user_profiles, user_interactions, request,
                   web_products, clicked_product_ids, query_ids>>

\* lines 448-468: the web-search fallback step
\* SearchWebOf with one retry of the agent call when it yields nothing
SearchWebOf_Retry(upstreams) ==
    /\ pc = "web"
    /\ \E first \in upstreams, second \in upstreams :
         LET r1 == search_products_with_claude(first)
             r  == IF r1 = <<>> THEN search_products_with_claude(second) ELSE r1
         IN  /\ web_products' = r
             /\ trace' = trace \o (IF r1 = <<>> THEN <<"agent", "agent">> ELSE <<"agent">>)
             /\ response' = IF r = <<>>
                            THEN SearchResponse("none", <<>>, FALSE)
                            ELSE SearchResponse("web_search", r, FALSE)
    /\ pc' = "done"
    /\ UNCHANGED <<supabase, supabase_admin, user_profiles, user_interactions, request,
                   user_prefs, db_products, clicked_product_ids, sql, query_ids>>

SearchWebOf(upstreams) ==
    /\ pc = "web"
    /\ \E upstream \in upstreams :
         LET r == search_products_with_claude(upstream)
         IN  /\ web_products' = r
             /\ trace' = trace \o (IF upstream.kind = "throws"
                                    THEN <<"agent", "agent.error">> ELSE <<"agent">>)
             /\ response' = IF r = <<>>
                            THEN SearchResponse("none", <<>>, FALSE)
                            ELSE SearchResponse("web_search", r, FALSE)
    /\ pc' = "done"
    /\ UNCHANGED <<supabase, supabase_admin, user_profiles, user_interactions, request,
                   user_prefs, db_products, clicked_product_ids, sql, query_ids>>

SearchWeb == SearchWebOf(Upstreams)

-----------------------------------------------------------------------------
(* POST /api/track *)

\* product ids as the clients send them
P_1    == <<"1">>
P_3    == <<"3">>
P_web1 == <<"w", "e", "b", "_", "1">>
P_abc  == <<"a", "b", "c">>

\* body.get(...) is None when the key is missing
NoPid == <<"N", "o", "n", "e">>

TrackBody(user_id, action, product_id, metadata) ==
    [NoRequest EXCEPT !.handler = "track", !.user_id = user_id, !.action = action,
                      !.product_id = product_id, !.metadata = metadata]

TrackBodies ==
    { TrackBody("u1", "clicked", P_1, FALSE),
      TrackBody("u1", "clicked", P_3, FALSE),
      TrackBody("u1", "clicked", P_web1, FALSE),
      TrackBody("u1", "clicked", P_abc, FALSE),
      TrackBody("u1", "searched", NoPid, TRUE),
      TrackBody("u2", "clicked", P_1, TRUE),
      TrackBody(NoUser, "clicked", P_1, FALSE),
      TrackBody("", "clicked", P_1, FALSE),
      TrackBody("u1", NoUser, P_1, FALSE),
      TrackBody("u1", "", NoPid, FALSE),
      TrackBody(NoUser, NoUser, NoPid, FALSE) }

\* interaction_data of lines 494-505: the row handed to insert
InteractionData(body) ==
    [user_id |-> body.user_id, action |-> body.action,
     has_product_id |-> body.product_id # NoPid,
     product_id |-> body.product_id,
     has_metadata |-> body.metadata]

\* an insert that skips a row the table already holds (an upsert)
insert_row_IfNew(table, row) ==
    IF \E i \in 1..Len(table) : table[i] = row THEN table ELSE Append(table, row)

\* supabase_admin.table('user_interactions').insert(row).execute(), line 508
insert_row(table, row) == Append(table, row)

TrackResponse(success) == [NoResponse EXCEPT !.status = 200, !.success = success]

\* the whole handler, lines 479-522; insert is what the store does with the
\* insert: "ok" or "throws"
Track ==
    /\ pc = "idle"
    /\ \E body \in TrackBodies, insert \in { "ok", "throws" } :
         /\ request' = body
         /\ IF ~Truthy(body.user_id) \/ ~Truthy(body.action)
            THEN /\ response' = HandlerExcept(
                                    HTTPException(400, "user_id and action are required"),
                                    "Tracking failed: ")
                 /\ trace' = <<>>
                 /\ UNCHANGED user_interactions
            ELSE IF ~supabase_admin
            THEN /\ response' = TrackResponse(FALSE)
                 /\ trace' = <<>>
                 /\ UNCHANGED user_interactions
            ELSE IF insert = "throws"
            THEN /\ response' = HandlerExcept(StoreError("insert failed"),
                                              "Tracking failed: ")
                 /\ trace' = <<"interactions.insert", "insert.error">>
                 /\ UNCHANGED user_interactions
            ELSE /\ Len(user_interactions) < MaxLog
                 /\ user_interactions' = insert_row(user_interactions, InteractionData(body))
                 /\ trace' = <<"interactions.insert">>
                 /\ response' = TrackResponse(TRUE)
    /\ pc' = "done"
    /\ user_prefs' = None
    /\ db_products' = <<>>
    /\ web_products' = <<>>
    /\ clicked_product_ids' = <<>>
    /\ sql' = NoSql
    /\ query_ids' = <<>>
    /\ UNCHANGED <<supabase, supabase_admin, user_profiles>>

-----------------------------------------------------------------------------
(* get_user_click_history *)

\* limit=10 of the call at line 549
HistoryLimit == 10

Reverse(seq) == [i \in 1..Len(seq) |-> seq[Len(seq) + 1 - i]]

\* select is what the store does: "ok" or "throws". The newest `limit`
\* "clicked" rows of the user, newest first; a row without product_id yields None.
get_user_click_history(user_id, limit, select) ==
    IF ~supabase_admin THEN [ids |-> <<>>, trace |-> <<>>]
    ELSE IF select = "throws"
         THEN [ids |-> <<>>, trace |-> <<"history.select", "history.error">>]
    ELSE LET rows == SelectSeq(Reverse(user_interactions),
                               LAMBDA r : r.user_id = user_id /\ r.action = "clicked")
             data == Take(rows, limit)
         IN  [ids |-> [i \in 1..Len(data) |->
                          IF data[i].has_product_id THEN data[i].product_id ELSE NoPid],
              trace |-> <<"history.select">>]

-----------------------------------------------------------------------------
(* get_similar_products *)

Digits == ("0" :> 0) @@ ("1" :> 1) @@ ("2" :> 2) @@ ("3" :> 3) @@ ("4" :> 4) @@
          ("5" :> 5) @@ ("6" :> 6) @@ ("7" :> 7) @@ ("8" :> 8) @@ ("9" :> 9)

\* str(pid).startswith('web_')
StartsWithWeb(pid) == Len(pid) >= 4 /\ SubSeq(pid, 1, 4) = <<"w", "e", "b", "_">>

\* int(pid) does not raise: a non-empty run of decimal digits
IsInt(pid) == pid # <<>> /\ \A i \in 1..Len(pid) : pid[i] \in DOMAIN Digits

RECURSIVE ParseInt(_)
ParseInt(pid) ==
    IF pid = <<>> THEN 0
    ELSE 10 * ParseInt(SubSeq(pid, 1, Len(pid) - 1)) + Digits[pid[Len(pid)]]

\* db_product_ids taking the number that follows the "web_" prefix as a
\* catalog id
DbProductIds_KeepWeb(product_ids) ==
    LET tail(pid) == IF StartsWithWeb(pid) THEN SubSeq(pid, 5, Len(pid)) ELSE pid
        kept == SelectSeq(product_ids, LAMBDA pid : IsInt(tail(pid)))
    IN  [i \in 1..Len(kept) |-> ParseInt(tail(kept[i]))]

\* lines 134-140: db_product_ids
DbProductIds(product_ids) ==
    LET kept == SelectSeq(product_ids, LAMBDA pid : ~StartsWithWeb(pid) /\ IsInt(pid))
    IN  [i \in 1..Len(kept) |-> ParseInt(kept[i])]

\* a row of a recommendation query, with retailer and the reason
RecProduct(row, reason) ==
    [id |-> row.id, name |-> row.name, brand |-> row.brand, price |-> row.price,
     color |-> row.color, fit |-> row.fit, category |-> row.category,
     style |-> row.style, retailer |-> row.brand, recommended_reason |-> reason]

\* the WHERE clause of lines 176-218
SimilarMatches(row, ids, clicked_products, prefs, category_filter) ==
    LET brands     == { Lower(StripQuotes(c.brand)) : c \in clicked_products }
        styles     == { Lower(c.style) : c \in clicked_products }
        categories == { Lower(c.category) : c \in clicked_products }
    IN  /\ row.id \notin ids
        /\ \/ Lower(StripQuotes(row.brand)) \in brands
           \/ Lower(row.style) \in styles
           \/ Lower(row.category) \in categories
        /\ category_filter # <<>> => Lower(row.category) = Lower(category_filter)
        /\ (prefs.exists /\ prefs.favorite_brands # <<>>) =>
              BrandMatches(row, { Lower(b) : b \in Range(prefs.favorite_brands) })

NoSimilar(trace_, ids) == [items |-> <<>>, trace |-> trace_, query_ids |-> ids]

\* get_similar_products returning from "no catalog-native id" without
\* closing the connection it opened
get_similar_products_LeakOnNoIds(product_ids, prefs, limit, category_filter, connect, execute) ==
    IF product_ids = <<>> THEN NoSimilar(<<>>, <<>>)
    ELSE IF connect = "fails" THEN NoSimilar(<<"db.connect_failed">>, <<>>)
    ELSE
      LET db_product_ids == DbProductIds(product_ids)
          ids == Range(db_product_ids)
          clicked_products == { r \in Range(products_table) : r.id \in ids }
          hits == SelectSeq(products_table,
                    LAMBDA row : SimilarMatches(row, ids, clicked_products, prefs,
                                                category_filter))
          results == Take(hits, limit)
      IN  IF db_product_ids = <<>> THEN NoSimilar(<<"db.open">>, <<>>)
          ELSE IF execute = "throws_first"
          THEN NoSimilar(<<"db.open", "db.execute", "db.error", "db.close">>,
                         db_product_ids)
          ELSE IF clicked_products = {}
          THEN NoSimilar(<<"db.open", "db.execute", "db.close">>, db_product_ids)
          ELSE IF execute = "throws_second"
          THEN NoSimilar(<<"db.open", "db.execute", "db.execute", "db.error", "db.close">>,
                         db_product_ids \o db_product_ids)
          ELSE [items |-> [i \in 1..Len(results) |->
                              RecProduct(results[i], "Similar to what you viewed")],
                trace |-> <<"db.open", "db.execute", "db.execute", "db.close">>,
                query_ids |-> db_product_ids \o db_product_ids]

\* connect and execute are what the catalog store does: connect "ok"/"fails",
\* execute "ok", "throws_first" (the lookup of the clicked rows) or
\* "throws_second" (the similarity query)
get_similar_products(product_ids, prefs, limit, category_filter, connect, execute) ==
    IF product_ids = <<>> THEN NoSimilar(<<>>, <<>>)
    ELSE IF connect = "fails" THEN NoSimilar(<<"db.connect_failed">>, <<>>)
    ELSE
      LET db_product_ids == DbProductIds(product_ids)
          ids == Range(db_product_ids)
          clicked_products == { r \in Range(products_table) : r.id \in ids }
          hits == SelectSeq(products_table,
                    LAMBDA row : SimilarMatches(row, ids, clicked_products, prefs,
                                                category_filter))
          results == Take(hits, limit)
      IN  IF db_product_ids = <<>> THEN NoSimilar(<<"db.open", "db.close">>, <<>>)
          ELSE IF execute = "throws_first"
          THEN NoSimilar(<<"db.open", "db.execute", "db.error", "db.close">>,
                         db_product_ids)
          ELSE IF clicked_products = {}
          THEN NoSimilar(<<"db.open", "db.execute", "db.close">>, db_product_ids)
          ELSE IF execute = "throws_second"
          THEN NoSimilar(<<"db.open", "db.execute", "db.execute", "db.error", "db.close">>,
                         db_product_ids \o db_product_ids)
          ELSE [items |-> [i \in 1..Len(results) |->
                              RecProduct(results[i], "Similar to what you viewed")],
                trace |-> <<"db.open", "db.execute", "db.execute", "db.close">>,
                query_ids |-> db_product_ids \o db_product_ids]

-----------------------------------------------------------------------------
(* GET /api/recommendations/{user_id} *)

Limits == { 1, DefaultLimit }

\* category: str = None; the empty text stands for None (both are falsy)
Categories == { <<>>, T_jeans }

\* RecResponse with total_recommendations taken from the click history
\* (the based_on_clicks count)
RecResponse_ClickTotal(source, items) ==
    [NoResponse EXCEPT !.status = 200, !.source = source,
                       !.total = Len(clicked_product_ids), !.items = items]

RecResponse(source, items) ==
    [NoResponse EXCEPT !.status = 200, !.source = source, !.total = Len(items),
                       !.items = items]

\* the WHERE clause of the preference-only query, lines 561-582
StyleMatches(row, prefs, category) ==
    /\ prefs.favorite_brands # <<>> =>
          BrandMatches(row, { Lower(b) : b \in Range(prefs.favorite_brands) })
    /\ prefs.favorite_styles # <<>> =>
          Lower(row.style) \in { Lower(x) : x \in Range(prefs.favorite_styles) }
    /\ category # <<>> => Lower(row.category) = Lower(category)

\* ORDER BY RANDOM() LIMIT limit: every ordered choice of min(limit, n) of
\* the n matching rows
RandomOrders(hits, limit) ==
    LET n == Len(hits)
        k == IF n < limit THEN n ELSE limit
    IN  { [i \in 1..k |-> hits[f[i]]] :
            f \in { g \in [1..k -> 1..n] : \A a, b \in 1..k : a # b => g[a] # g[b] } }

\* lines 536-549: the path parameter is never empty (the route does not
\* match an empty segment); load the preferences, then the click history
RecStart ==
    /\ pc = "idle"
    /\ \E uid \in { "u1", "u2" }, limit \in Limits, category \in Categories,
          fetch \in { "ok", "throws" }, select \in { "ok", "throws" } :
         LET p == get_user_preferences(uid, fetch)
             h == get_user_click_history(uid, HistoryLimit, select)
         IN  /\ request' = [NoRequest EXCEPT !.handler = "recommendations",
                                             !.user_id = uid, !.limit = limit,
                                             !.category = category]
             /\ user_prefs' = p.prefs
             /\ clicked_product_ids' = h.ids
             /\ trace' = p.trace \o h.trace
    /\ pc' = "rec"
    /\ response' = NoResponse
    /\ db_products' = <<>>
    /\ web_products' = <<>>
    /\ sql' = NoSql
    /\ query_ids' = <<>>
    /\ UNCHANGED <<supabase, supabase_admin, user_profiles, user_interactions>>

\* lines 551-619: no click history
RecStyle ==
    /\ pc = "rec"
    /\ clicked_product_ids = <<>>
    /\ \E connect \in { "ok", "fails" }, execute \in { "ok", "throws" } :
         IF ~user_prefs.exists
         THEN /\ response' = RecResponse("none", <<>>)
              /\ trace' = trace
         ELSE IF connect = "fails"
         THEN /\ response' = RecResponse("none", <<>>)
              /\ trace' = Append(trace, "db.connect_failed")
         ELSE IF execute = "throws"
         THEN /\ response' = RecResponse("none", <<>>)
              /\ trace' = trace \o <<"db.open", "db.execute", "db.error", "db.close">>
         ELSE /\ \E rows \in RandomOrders(
                        SelectSeq(products_table,
                                  LAMBDA row : StyleMatches(row, user_prefs,
                                                              request.category)),
                        request.limit) :
                    response' = RecResponse("style_based",
                                   [i \in 1..Len(rows) |->
                                       RecProduct(rows[i], "Matches your style")])
              /\ trace' = trace \o <<"db.open", "db.execute", "db.close">>
    /\ pc' = "done"
    /\ UNCHANGED <<supabase, supabase_admin, user_profiles, user_interactions, request,
                   user_prefs, db_products, web_products, clicked_product_ids, sql,
                   query_ids>>

\* lines 621-631: click history present
RecSimilar ==
    /\ pc = "rec"
    /\ clicked_product_ids # <<>>
    /\ \E connect \in { "ok", "fails" },
          execute \in { "ok", "throws_first", "throws_second" } :
         LET r == get_similar_products(clicked_product_ids, user_prefs,
                                       request.limit, request.category, connect, execute)
         IN  /\ response' = RecResponse("click_based", r.items)
             /\ trace' = trace \o r.trace
             /\ query_ids' = r.query_ids
    /\ pc' = "done"
    /\ UNCHANGED <<supabase, supabase_admin, user_profiles, user_interactions, request,
                   user_prefs, db_products, web_products, clicked_product_ids, sql>>

-----------------------------------------------------------------------------
(* The service *)

\* the response is sent; the handler's locals are gone
Respond ==
    /\ pc = "done"
    /\ pc' = "idle"
    /\ request' = NoRequest
    /\ user_prefs' = None
    /\ db_products' = <<>>
    /\ web_products' = <<>>
    /\ clicked_product_ids' = <<>>
    /\ sql' = NoSql
    /\ query_ids' = <<>>
    /\ trace' = <<>>
    /\ response' = NoResponse
    /\ UNCHANGED <<supabase, supabase_admin, user_profiles, user_interactions>>

\* the state after module initialisation (lines 27-51): each client is there
\* or not, the stores hold what was put there out-of-band
Init ==
    /\ supabase \in BOOLEAN
    /\ supabase_admin \in BOOLEAN
    /\ user_profiles \in { NoRow } \cup Profiles
    /\ user_interactions = <<>>
    /\ pc = "idle"
    /\ request = NoRequest
    /\ user_prefs = None
    /\ db_products = <<>>
    /\ web_products = <<>>
    /\ clicked_product_ids = <<>>
    /\ sql = NoSql
    /\ query_ids = <<>>
    /\ trace = <<>>
    /\ response = NoResponse

\* the search requests
Next ==
    \/ SearchStart
    \/ SearchCatalog
    \/ SearchWeb
    \/ Respond

Spec == Init /\ [][Next]_vars

\* The whole service: every handler, over a log of up to MaxLog rows. The
\* search requests are drawn from a part of the inputs of Spec and the
\* profiles carry no fit mappings (search_database alone reads them).
ServiceQueries == { <<>>, T_jean, T_zzz }

ServiceUpstreams ==
    { [kind |-> "throws", items |-> <<>>],
      [kind |-> "list", items |-> <<EntryFull>>] }

ServiceInit ==
    /\ Init
    /\ user_profiles.fit_preferences_tops = <<>>
    /\ user_profiles.fit_preferences_bottoms = <<>>

ServiceSearchStart == SearchStartOf(ServiceQueries, { NoUser, "u1" })

ServiceSearchWeb == SearchWebOf(ServiceUpstreams)

ServiceNext ==
    \/ ServiceSearchStart
    \/ SearchCatalog
    \/ ServiceSearchWeb
    \/ Track
    \/ RecStart
    \/ RecStyle
    \/ RecSimilar
    \/ Respond

ServiceSpec == ServiceInit /\ [][ServiceNext]_vars

-----------------------------------------------------------------------------
(* Properties *)

\* how often event ev is in the trace of the request
Count(ev) == Cardinality({ i \in 1..Len(trace) : trace[i] = ev })

SearchDone == pc = "done" /\ request.handler = "search"

\* the query is missing, empty or white space only
BlankQuery == request.query = <<>> \/ Len(Strip(request.query)) = 0

\* the catalog step of the request has completed
CatalogStepDone == Count("db.close") + Count("db.connect_failed") > 0

\* C1: a search request whose query is missing, empty or white space only is
\* answered with a 4xx status, and no store and no agent was called for it.
\* The code answers it with 500: the HTTPException(400) is raised inside the
\* handler's try block and caught by its `except Exception`.
C1_BlankQueryIsClientError ==
    (SearchDone /\ BlankQuery) => (response.status \in 400..499 /\ trace = <<>>)

\* C2: in a successful search response, source is "database" exactly when the
\* catalog step returned products, "web_search" exactly when it returned none
\* and the fallback returned some, "none" exactly when both returned none;
\* total_results is the length of products, and products are those of the
\* step that source names and of no other.
C2_SourceNamesTheStep ==
    (SearchDone /\ response.status = 200) =>
        /\ response.source \in { "database", "web_search", "none" }
        /\ response.source = "database" <=> db_products # <<>>
        /\ response.source = "web_search" <=> (db_products = <<>> /\ web_products # <<>>)
        /\ response.source = "none" <=> (db_products = <<>> /\ web_products = <<>>)
        /\ response.total = Len(response.items)
        /\ response.source = "database" =>
              (response.items = db_products /\ Count("agent") = 0)
        /\ response.source = "web_search" => response.items = web_products
        /\ response.source = "none" => response.items = <<>>

C2_Witness ==
    /\ SearchDone
    /\ response.source = "web_search"
    /\ response.total = 2
    /\ "db.close" \in Range(trace)

\* C3: within a search request with a non-blank query the agent is called
\* once if the catalog step completed with no products, and not at all if it
\* returned products; it is never called before the catalog step has
\* completed, and no step runs twice.
C3_AgentOnceAfterEmptyCatalog ==
    request.handler = "search" =>
        /\ (SearchDone /\ CatalogStepDone /\ db_products = <<>>) => Count("agent") = 1
        /\ db_products # <<>> => Count("agent") = 0
        /\ ~CatalogStepDone => Count("agent") = 0
        /\ \A i \in 1..Len(trace) :
              trace[i] = "agent" =>
                 \E j \in 1..(i - 1) : trace[j] \in { "db.close", "db.connect_failed" }
        /\ Count("agent") <= 1
        /\ Count("db.open") + Count("db.connect_failed") <= 1
        /\ Count("db.execute") <= 1
        /\ Count("prefs.select") <= 1
        /\ pc = "web" => (CatalogStepDone /\ db_products = <<>> /\ ~BlankQuery)

C3_Witness ==
    /\ SearchDone
    /\ trace = <<"db.open", "prefs.select", "db.execute", "db.error", "db.close", "agent">>
    /\ db_products = <<>>
    /\ response.source = "web_search"

\* C4: every product of the web-search fallback has every display field
\* present and not null, whatever the upstream entries omit or carry as null.
\* The code fills a field only when its key is missing (setdefault): a key
\* that carries null stays null.
C4_WebProductsComplete ==
    \A i \in 1..Len(web_products) :
        \A k \in DisplayFields : web_products[i][k] \notin { Absent, Null }

\* C5: the web-search fallback returns between 0 and 8 products, also when
\* the upstream array holds more than 8 entries. The code returns the array
\* at its full length.
C5_WebProductsAtMostEight == Len(web_products) \in 0..8

\* C6: in a personalized catalog search, a query with a top keyword gets no
\* fit filter from fit_preferences_bottoms, a query with a bottom keyword
\* none from fit_preferences_tops, and a query with neither no fit filter.
\* The code tests the bottom keywords in an elif: a query with keywords of
\* both sets gets the tops filter, or the bottoms filter when the tops
\* mapping is empty.
C6_FitFilterFollowsKeywords ==
    (sql.built /\ user_prefs.exists) =>
        /\ is_top_query(sql.pattern) => sql.fit_source # "bottoms"
        /\ is_bottom_query(sql.pattern) => sql.fit_source # "tops"
        /\ (~is_top_query(sql.pattern) /\ ~is_bottom_query(sql.pattern)) =>
              sql.fit_source = "none"

TrackDone == pc = "done" /\ request.handler = "track"

RecDone == pc = "done" /\ request.handler = "recommendations"

\* C7: a track request without user_id or action (missing or empty) is
\* answered with a 4xx status and writes no row. The code answers it with
\* 500: the HTTPException(400) is caught by the handler's `except Exception`.
C7_TrackMissingFieldIsClientError ==
    (TrackDone /\ (~Truthy(request.user_id) \/ ~Truthy(request.action))) =>
        (response.status \in 400..499 /\ Count("interactions.insert") = 0)

\* a request that passes the validation of its handler
ValidRequest ==
    \/ request.handler = "track" /\ Truthy(request.user_id) /\ Truthy(request.action)
    \/ request.handler = "search" /\ ~BlankQuery
    \/ request.handler = "recommendations"

C9_SourceFollowsHistoryThenPrefs ==
    RecDone =>
        /\ clicked_product_ids # <<>> => response.source = "click_based"
        /\ (clicked_product_ids = <<>> /\ user_prefs.exists) =>
              response.source = "style_based"
        /\ (clicked_product_ids = <<>> /\ ~user_prefs.exists) =>
              (response.source = "none" /\ response.total = 0 /\ response.items = <<>>)
        /\ response.total = Len(response.items)

\* C9 as amended: preferences are loaded, then the click history. "click_based"
\* exactly when the history is not empty; "style_based" exactly when it is
\* empty, a preference record exists and the preference-only catalog query
\* ran without error; "none", with total 0 and an empty list, in every other
\* case, so also with a preference record when the catalog store is
\* unreachable or the query throws. total_recommendations is the length of
\* recommendations.
C9_SourceFollowsHistoryPrefsAndStore ==
    RecDone =>
        /\ response.status = 200
        /\ response.source \in { "click_based", "style_based", "none" }
        /\ response.source = "click_based" <=> clicked_product_ids # <<>>
        /\ response.source = "style_based" <=>
              /\ clicked_product_ids = <<>>
              /\ user_prefs.exists
              /\ Count("db.execute") = 1
              /\ Count("db.error") = 0
        /\ response.source = "none" => (response.total = 0 /\ response.items = <<>>)
        /\ response.total = Len(response.items)
        /\ \A i, j \in 1..Len(trace) :
              (trace[i] = "prefs.select" /\ trace[j] = "history.select") => i < j
        /\ \A i, j \in 1..Len(trace) :
              (trace[i] = "history.select"
                 /\ trace[j] \in { "db.open", "db.connect_failed" }) => i < j

C9_Witness ==
    /\ RecDone
    /\ clicked_product_ids = <<>>
    /\ user_prefs.exists
    /\ Count("db.connect_failed") = 1
    /\ response.source = "none"
    /\ trace = <<"prefs.select", "history.select", "db.connect_failed">>

\* the lower-cased favorite_brands of the stored row
StoredBrands == { Lower(b) : b \in Range(user_profiles.favorite_brands) }

\* C10 as stated: for a user with stored favorite_brands, every product of a
\* "database" response has a brand that, quotes stripped and lower-cased, is
\* one of the lower-cased favorite_brands.
C10_BrandsAreFavorites ==
    (SearchDone /\ response.source = "database" /\ request.user_id = "u1"
       /\ user_profiles.exists /\ user_profiles.favorite_brands # <<>>) =>
        \A i \in 1..Len(response.items) :
            Lower(StripQuotes(response.items[i].brand)) \in StoredBrands

\* C10 as amended: when the stored row was loaded for the request, every
\* product of a "database" response has a brand that, lower-cased, is one of
\* the lower-cased favorite_brands either as stored or with its quotes stripped.
C10_BrandsAreFavoritesWhenLoaded ==
    (SearchDone /\ response.source = "database" /\ request.user_id = "u1"
       /\ user_profiles.exists /\ user_profiles.favorite_brands # <<>>
       /\ user_prefs.exists) =>
        /\ user_prefs = user_profiles
        /\ \A i \in 1..Len(response.items) :
              \/ Lower(StripQuotes(response.items[i].brand)) \in StoredBrands
              \/ Lower(response.items[i].brand) \in StoredBrands

C10_Witness ==
    /\ SearchDone
    /\ response.source = "database"
    /\ user_prefs.exists
    /\ user_prefs.favorite_brands = <<T_Nike>>
    /\ \E i \in 1..Len(response.items) : response.items[i].brand = T_qNikeq

\* s is t with nothing changed or removed and perhaps rows added at the end
IsPrefix(s, t) == Len(s) <= Len(t) /\ SubSeq(t, 1, Len(s)) = s

\* the step is a track request that passed the validation and whose insert
\* was made and did not throw
TrackInserted ==
    /\ pc = "idle"
    /\ pc' = "done"
    /\ request'.handler = "track"
    /\ Truthy(request'.user_id)
    /\ Truthy(request'.action)
    /\ supabase_admin
    /\ trace' = <<"interactions.insert">>

\* C11: the interaction log is append-only. No step changes or removes a row;
\* a valid track request whose insert succeeds adds exactly one row, the
\* request's own, at the end, also when the log holds an equal row already;
\* no other step adds a row.
C11_LogIsAppendOnly ==
    [][ /\ IsPrefix(user_interactions, user_interactions')
        /\ TrackInserted =>
              user_interactions' = Append(user_interactions, InteractionData(request'))
        /\ ~TrackInserted => user_interactions' = user_interactions ]_vars

C11_Witness ==
    /\ TrackDone
    /\ response.success
    /\ Len(user_interactions) = 2
    /\ user_interactions[1] = user_interactions[2]
    /\ user_interactions[2] = InteractionData(request)

\* C12: a search request with a non-blank query and no user_id (the key is
\* missing or null) never reads the preference store, its catalog query
\* carries the base text predicate alone, and its response, whatever the
\* source, has personalized = false.
C12_NoUserNoPersonalization ==
    (request.handler = "search" /\ request.user_id = NoUser /\ ~BlankQuery) =>
        /\ Count("prefs.select") = 0
        /\ ~user_prefs.exists
        /\ sql.built =>
              /\ sql.pattern = Lower(request.query)
              /\ ~sql.brand_filter
              /\ ~sql.style_filter
              /\ sql.fit_source = "none"
        /\ db_products # <<>> =>
              Len(db_products) =
                 Cardinality({ i \in 1..Len(products_table) :
                                  BaseMatches(products_table[i], Lower(request.query)) })
        /\ pc = "done" =>
              /\ response.status = 200
              /\ response.source \in { "database", "web_search", "none" }
              /\ ~response.personalized

C12_Witness ==
    /\ SearchDone
    /\ request.user_id = NoUser
    /\ supabase
    /\ user_profiles.exists
    /\ user_profiles.favorite_brands # <<>>
    /\ request.query = T_Jean
    /\ response.source = "database"
    /\ response.total = 3
    /\ ~response.personalized

\* the clicked ids that are catalog-native: no "web_" prefix, and an integer
NativeClicks ==
    SelectSeq(clicked_product_ids, LAMBDA pid : ~StartsWithWeb(pid) /\ IsInt(pid))

NativeIds == [i \in 1..Len(NativeClicks) |-> ParseInt(NativeClicks[i])]

\* C13: in a recommendations request the parameters of the catalog queries of
\* the similarity recommender are exactly the integers of the catalog-native
\* clicked ids (once per executed query): a "web_" token or a text that is not
\* an integer is never among them. When the click history holds no
\* catalog-native id, no catalog query is executed and the recommender
\* returns the empty sequence.
C13_OnlyNativeIdsAreQueried ==
    request.handler = "recommendations" =>
        /\ query_ids \in { <<>>, NativeIds, NativeIds \o NativeIds }
        /\ \A i \in 1..Len(query_ids) :
              \E j \in 1..Len(clicked_product_ids) :
                 /\ ~StartsWithWeb(clicked_product_ids[j])
                 /\ IsInt(clicked_product_ids[j])
                 /\ query_ids[i] = ParseInt(clicked_product_ids[j])
        /\ (RecDone /\ clicked_product_ids # <<>>) =>
              /\ Count("db.execute") * Len(NativeIds) = Len(query_ids)
              /\ NativeIds = <<>> =>
                    /\ Count("db.execute") = 0
                    /\ query_ids = <<>>
                    /\ response.items = <<>>
                    /\ response.total = 0

C13_Witness ==
    /\ RecDone
    /\ Len(clicked_product_ids) = 2
    /\ \E j \in 1..2 : StartsWithWeb(clicked_product_ids[j])
    /\ \E j \in 1..2 : clicked_product_ids[j] = P_1
    /\ query_ids = <<1, 1>>
    /\ Count("db.execute") = 2
    /\ response.items # <<>>

\* the history holds web-fallback and non-integer ids only: nothing is queried
C13_WitnessNoneRemain ==
    /\ RecDone
    /\ Range(clicked_product_ids) = { P_web1, P_abc }
    /\ Count("db.open") = 1
    /\ Count("db.execute") = 0
    /\ response.source = "click_based"
    /\ response.items = <<>>

\* connections open after the first k events of the request
OpenAfter(k) ==
    Cardinality({ i \in 1..k : trace[i] = "db.open" })
      - Cardinality({ i \in 1..k : trace[i] = "db.close" })

\* C14: a search or recommendations request never holds more than one
\* catalog connection, every connection it opened is closed when a handler
\* step ends and when the response (success or error) is produced, every
\* catalog query and every query failure happens on a connection the same
\* request opened, the agent is only called with no connection open, and
\* between requests nothing of a connection is left.
C14_ConnectionsAreClosed ==
    /\ \A k \in 0..Len(trace) : OpenAfter(k) \in { 0, 1 }
    /\ OpenAfter(Len(trace)) = 0
    /\ \A k \in 1..Len(trace) :
          /\ trace[k] \in { "db.execute", "db.error" } => OpenAfter(k) = 1
          /\ trace[k] \in { "agent", "db.connect_failed" } => OpenAfter(k) = 0
    /\ pc = "idle" => trace = <<>>
    /\ pc = "done" /\ request.handler \in { "search", "recommendations" } =>
          Count("db.open") = Count("db.close")

\* a recommendations request whose similarity query throws
C14_Witness ==
    /\ RecDone
    /\ clicked_product_ids # <<>>
    /\ Count("db.execute") = 2
    /\ Count("db.error") = 1
    /\ Count("db.open") = 1
    /\ Count("db.close") = 1
    /\ response.status = 200

\* the early return of the similarity recommender, and a throwing search query
C14_WitnessEarlyReturn ==
    /\ RecDone
    /\ clicked_product_ids # <<>>
    /\ trace[Len(trace)] = "db.close"
    /\ Count("db.open") = 1
    /\ Count("db.execute") = 0

C14_WitnessSearchThrows ==
    /\ SearchDone
    /\ Count("db.open") = 1
    /\ Count("db.error") = 1
    /\ Count("db.close") = 1
    /\ Count("agent") = 1

====
